---- MODULE Spec2Model ----
(***************************************************************************)
(* The language assistant (language_agent_mcp.py) and the file-storage     *)
(* service it saves to (files_mcp_remote.py).                              *)
(*                                                                         *)
(* Python strings are sequences of one-character strings, so that lower(), *)
(* strip(), isdigit(), endswith(), Path.suffix and join() are computed the *)
(* way Python computes them.  An optional value is <<>> (None) or <<v>>.   *)
(*                                                                         *)
(* The translator returns translations that are not empty, file names hold *)
(* no path separator, and the listing of the directory is taken as a set   *)
(* (iterdir() promises no order).                                          *)
(***************************************************************************)
EXTENDS Integers, Sequences, FiniteSets, TLC

VARIABLES
    pc,                \* position of main(): "init", "loop", "finally", "done"
    state,             \* LanguageAgent.state
    last_input,        \* LanguageAgent.last_input (optional string)
    last_translation,  \* TranslationPlugin.last_translation (optional string)
    http_session,      \* TextFilePlugin.http_session: "none" or "open"
    opened,            \* number of ClientSession objects constructed so far
    closed,            \* number of ClientSession objects closed so far
    files,             \* the storage directory: name -> [kind, content]
    now,               \* the wall clock, in seconds
    writes,            \* number of files written so far
    lastGood,          \* the most recent successful translation: <<text, result>>
    last               \* the most recent operation: its input, its pre-state,
                       \* the capabilities it invoked and what it returned

vars == <<pc, state, last_input, last_translation, http_session, opened,
          closed, files, now, writes, lastGood, last>>

-----------------------------------------------------------------------------
(* Bounds of the model.                                                    *)

\* The clock runs from second 0 to second MaxClock.
MaxClock == 1

\* At most MaxWrites files are written in one behaviour.
MaxWrites == 2

-----------------------------------------------------------------------------
(* Python values.                                                          *)

NONE == <<>>

Some(v) == <<v>>

\* Python truthiness of an optional string: None and "" are falsy.
Truthy(o) == o # NONE /\ o[1] # <<>>

UPPER == <<"A","B","C","D","E","F","G","H","I","J","K","L","M",
           "N","O","P","Q","R","S","T","U","V","W","X","Y","Z">>

LOWER == <<"a","b","c","d","e","f","g","h","i","j","k","l","m",
           "n","o","p","q","r","s","t","u","v","w","x","y","z">>

DIGITS == {"0","1","2","3","4","5","6","7","8","9"}

WHITESPACE == {" ", "\t", "\n", "\r"}

LowerChar(c) ==
    IF \E i \in 1..Len(UPPER) : UPPER[i] = c
    THEN LOWER[CHOOSE i \in 1..Len(UPPER) : UPPER[i] = c]
    ELSE c

\* str.lower()
Lower(s) == [i \in 1..Len(s) |-> LowerChar(s[i])]

\* str.isdigit(): at least one character, and all of them digits
IsDigit(s) == Len(s) > 0 /\ \A i \in 1..Len(s) : s[i] \in DIGITS

RECURSIVE LStrip(_)
LStrip(s) ==
    IF s # <<>> /\ Head(s) \in WHITESPACE THEN LStrip(Tail(s)) ELSE s

RECURSIVE RStrip(_)
RStrip(s) ==
    IF s # <<>> /\ s[Len(s)] \in WHITESPACE
    THEN RStrip(SubSeq(s, 1, Len(s) - 1))
    ELSE s

\* str.strip()
Strip(s) == RStrip(LStrip(s))

\* str.endswith(suffix)
EndsWith(s, suffix) ==
    /\ Len(s) >= Len(suffix)
    /\ SubSeq(s, Len(s) - Len(suffix) + 1, Len(s)) = suffix

\* sep.join(parts)
RECURSIVE Join(_, _)
Join(sep, parts) ==
    IF parts = <<>> THEN <<>>
    ELSE IF Len(parts) = 1 THEN parts[1]
    ELSE parts[1] \o sep \o Join(sep, Tail(parts))

\* str.rfind("."), 0-based, -1 when there is no dot
RFindDot(s) ==
    LET at == {i \in 1..Len(s) : s[i] = "."}
    IN  IF at = {} THEN -1
        ELSE (CHOOSE i \in at : \A j \in at : j <= i) - 1

\* pathlib's PurePath.suffix of a file name: the part from the last dot on,
\* unless the name starts with that dot or ends with it
PathSuffix(name) ==
    LET i == RFindDot(name)
    IN  IF 0 < i /\ i < Len(name) - 1
        THEN SubSeq(name, i + 1, Len(name))
        ELSE <<>>

\* A dict is the sequence of its <<key, value>> items, in insertion order.
DictKeys(d) == [i \in 1..Len(d) |-> d[i][1]]

\* dict.get(key, default)
DictGet(d, key, default) ==
    IF \E i \in 1..Len(d) : d[i][1] = key
    THEN d[CHOOSE i \in 1..Len(d) : d[i][1] = key][2]
    ELSE default

-----------------------------------------------------------------------------
(* String literals of the two programs.                                    *)

TXT == <<".","t","x","t">>

FILES_DIR == <<"f","i","l","e","s">>

TRANSLATION_DATA == <<"T","r","a","n","s","l","a","t","i","o","n"," ",
                      "D","a","t","a",":">>

TRANSLATION_PREFIX == <<"T","r","a","n","s","l","a","t","i","o","n","_">>

TRANSLATION_KEY == <<"t","r","a","n","s","l","a","t","i","o","n">>

EXIT == <<"e","x","i","t">>

LIST_FILES == <<"l","i","s","t"," ","f","i","l","e","s">>

\* time.strftime("%Y%m%d%H%M%S"): fourteen digits with a resolution of one
\* second; the modelled seconds are the first ones of 2025-08-01 12:30.
Strftime(t) ==
    <<"2","0","2","5","0","8","0","1","1","2","3","0","0">>
        \o << <<"0","1","2","3","4","5","6","7","8","9">>[t + 1] >>

-----------------------------------------------------------------------------
(* files_mcp_remote.py: the file-storage service.                          *)
(* The directory maps a name to [kind, content]; kind is "file" or "dir".  *)

RegularFile(content) == [kind |-> "file", content |-> content]

Directory == [kind |-> "dir", content |-> <<>>]

\* str(FILES_DIR / name)
FilePath(name) == FILES_DIR \o <<"/">> \o name

\* f.is_file() and f.suffix == ".txt"
IsTextFile(fs, name) ==
    name \in DOMAIN fs /\ fs[name].kind = "file" /\ PathSuffix(name) = TXT

list_files(fs) ==
    {[name |-> n, id |-> FilePath(n)] : n \in {x \in DOMAIN fs : IsTextFile(fs, x)}}

\* "Ensure unique file name"
ResolvedName(file_name, t) ==
    IF ~EndsWith(file_name, TXT)
    THEN file_name \o <<"_">> \o Strftime(t) \o TXT
    ELSE file_name

\* The first row is not looked at.
InvalidData_first_row_unchecked(data) == data = <<>>

\* not data or not data[0]
InvalidData(data) == data = <<>> \/ data[1] = <<>>

\* The list `content`: the title, the header line, one line for each row.
FileLines(data) ==
    LET headers == DictKeys(data[1])
        Row(item) ==
            Join(<<",">>, [k \in 1..Len(headers) |-> DictGet(item, headers[k], <<>>)])
    IN  <<TRANSLATION_DATA, Join(<<",">>, headers)>>
            \o [i \in 1..Len(data) |-> Row(data[i])]

\* Every line is ended by a newline.
FileContent_lines_terminated(data) ==
    Join(<<>>, [i \in 1..Len(FileLines(data)) |-> FileLines(data)[i] \o <<"\n">>])

\* "\n".join(content)
FileContent(data) == Join(<<"\n">>, FileLines(data))

\* open(file_path, "w") raises when the path is a directory
OpenFails(fs, name) == name \in DOMAIN fs /\ fs[name].kind = "dir"

\* open(file_path, "w") and f.write(text): the file is created or truncated
WriteFile(fs, name, text) ==
    [n \in DOMAIN fs \cup {name} |->
        IF n = name THEN RegularFile(text) ELSE fs[n]]

ServerDict(status, message, file_id, file_name) ==
    [type |-> "dict", status |-> status, message |-> message,
     file_id |-> file_id, file_name |-> file_name, items |-> {}]

create_file(fs, t, file_name, data) ==
    LET name == ResolvedName(file_name, t)
    IN  IF InvalidData(data)
        THEN [files |-> fs,
              resp  |-> ServerDict("error", "Invalid data format", Some(<<>>), Some(name))]
        ELSE IF OpenFails(fs, name)
        THEN [files |-> fs,
              resp  |-> ServerDict("error", "Failed to create text file", Some(<<>>), Some(name))]
        ELSE [files |-> WriteFile(fs, name, FileContent(data)),
              resp  |-> ServerDict("success", "Created text file",
                                   Some(FilePath(name)), Some(name))]

-----------------------------------------------------------------------------
(* language_agent_mcp.py: the plugins.                                     *)

\* What a call does that leaves the process: a capability of the agent, or
\* an HTTP request to the file-storage service.
Call(fn, arg) == [fn |-> fn, arg |-> arg]

\* A string the agent builds from a template and the values put into it.
Text(kind, arg) == [kind |-> kind, arg |-> arg]

NO_TRANSLATION == "No recent translation to save. Please translate something first."

\* One outcome of TextTranslationClient.translate: it raises, or it returns
\* a list of items [detected_language, translations].
AzureRaises == [raises |-> TRUE, result |-> <<>>]

AzureReturns(result) == [raises |-> FALSE, result |-> result]

AzureItem(language, translations) ==
    [detected_language |-> language, translations |-> translations]

\* The text of the first translation, when the call returned one.
AzureTranslation(az) ==
    IF ~az.raises /\ az.result # <<>> /\ az.result[1].translations # <<>>
    THEN Some(az.result[1].translations[1])
    ELSE NONE

detect_language(text, az) ==
    IF az.raises
    THEN Text("Error detecting language", <<>>)
    ELSE IF az.result # <<>> /\ az.result[1].detected_language # NONE
    THEN Text("Detected language", az.result[1].detected_language[1])
    ELSE Text("Unable to detect language.", <<>>)

\* The text given is stored when the translator returns no translation.
translate_to_english_stores_the_text(text, az, lt) ==
    IF az.raises
    THEN [result |-> Text("Error translating text", <<>>), last_translation |-> lt]
    ELSE IF az.result # <<>> /\ az.result[1].translations # <<>>
    THEN [result |-> Text("Translated to English", az.result[1].translations[1]),
          last_translation |-> Some(az.result[1].translations[1])]
    ELSE [result |-> Text("Unable to translate text.", <<>>), last_translation |-> Some(text)]

\* Only the first translation is stored.
translate_to_english_keeps_the_first(text, az, lt) ==
    IF az.raises
    THEN [result |-> Text("Error translating text", <<>>), last_translation |-> lt]
    ELSE IF az.result # <<>> /\ az.result[1].translations # <<>>
    THEN [result |-> Text("Translated to English", az.result[1].translations[1]),
          last_translation |-> IF lt = NONE THEN Some(az.result[1].translations[1]) ELSE lt]
    ELSE [result |-> Text("Unable to translate text.", <<>>), last_translation |-> lt]

\* Returns the string and the value of self.last_translation afterwards.
translate_to_english(text, az, lt) ==
    IF az.raises
    THEN [result |-> Text("Error translating text", <<>>), last_translation |-> lt]
    ELSE IF az.result # <<>> /\ az.result[1].translations # <<>>
    THEN [result |-> Text("Translated to English", az.result[1].translations[1]),
          last_translation |-> Some(az.result[1].translations[1])]
    ELSE [result |-> Text("Unable to translate text.", <<>>), last_translation |-> lt]

\* The dict carries the message and no status "error".
ErrorDict_without_status(message) ==
    [type |-> "dict", status |-> "", message |-> message,
     file_id |-> NONE, file_name |-> NONE, items |-> {}]

\* A dict the plugin builds itself: it has a status and a message only.
ErrorDict(message) ==
    [type |-> "dict", status |-> "error", message |-> message,
     file_id |-> NONE, file_name |-> NONE, items |-> {}]

\* The JSON array list_files answers with.
ListResult(items) ==
    [type |-> "list", status |-> "", message |-> "",
     file_id |-> NONE, file_name |-> NONE, items |-> items]

\* f"Translation_{time.strftime('%Y%m%d%H%M%S')}.txt"
GeneratedName(t) == TRANSLATION_PREFIX \o Strftime(t) \o TXT

\* The session the tool uses: the open one, or a new one when there is none.
\* ok says whether aiohttp.ClientSession() can be constructed.
initialize_client(ok) ==
    IF ok
    THEN [raised |-> FALSE, http_session |-> "open", opened |-> opened + 1]
    ELSE [raised |-> TRUE, http_session |-> http_session, opened |-> opened]

\* net is what the HTTP request does: "ok" (the service answers 200),
\* "non200" (an answer with another status) or "raise" (no answer).
\* Returns the result, the calls made, and the session and directory after.
invoke_tool(tool_name, file_name, net, session_ok) ==
    LET lazy == IF http_session = "none"
                THEN initialize_client(session_ok)
                ELSE [raised |-> FALSE, http_session |-> http_session, opened |-> opened]
        Out(result, calls, fs) ==
            [result |-> result, calls |-> calls, files |-> fs,
             http_session |-> lazy.http_session, opened |-> lazy.opened]
        name == IF ~Truthy(file_name) THEN GeneratedName(now) ELSE file_name[1]
        data == << << <<TRANSLATION_KEY, last_translation[1]>> >> >>
        post == Call("POST", <<name, data>>)
        get  == Call("GET", <<>>)
    IN  IF lazy.raised
        THEN Out(ErrorDict("Failed to invoke tool"), <<>>, files)
        ELSE IF tool_name \notin {"list_files", "create_file"}
        THEN Out(ErrorDict("Tool not found on MCP server"), <<>>, files)
        ELSE IF tool_name = "list_files"
        THEN CASE net = "ok"     -> Out(ListResult(list_files(files)), <<get>>, files)
               [] net = "non200" -> Out(ErrorDict("Failed to list files: HTTP"), <<get>>, files)
               [] OTHER          -> Out(ErrorDict("Failed to invoke tool"), <<get>>, files)
        ELSE IF ~Truthy(last_translation)
        THEN Out(ErrorDict(NO_TRANSLATION), <<>>, files)
        ELSE CASE net = "ok" ->
                    LET r == create_file(files, now, name, data)
                    IN  Out(r.resp, <<post>>, r.files)
               [] net = "non200" -> Out(ErrorDict("Failed to create file: HTTP"), <<post>>, files)
               [] OTHER          -> Out(ErrorDict("Failed to invoke tool"), <<post>>, files)

-----------------------------------------------------------------------------
(* language_agent_mcp.py: the conversation controller.                     *)

GOODBYE == "Exiting Language Assistant. Goodbye!"

INVALID_OPTION ==
    "Please select a valid option: 1. Detect language, 2. Translate to English, 3. Save translation, or 'list files'."

FALLBACK ==
    "Please provide text to process or select an option: 1. Detect language, 2. Translate to English, 3. Save translation, or 'list files'."

PROVIDE_TEXT_TO_DETECT == "Please provide text to detect language, e.g., 'Bonjour le monde'."

PROVIDE_TEXT_TO_TRANSLATE == "Please provide text to translate, e.g., 'Bonjour le monde'."

\* The exit command honoured only before a text has been given.
IsExitCommand_awaiting_input_only(m) == Lower(m) = EXIT /\ state = "awaiting_input"

\* message.lower() == "exit"
IsExitCommand(m) == Lower(m) = EXIT

\* message.lower() == "list files"
IsListFilesCommand(m) == Lower(m) = LIST_FILES

\* A text taken only while none is pending.
IsTextInput_first_text_only(m) ==
    ~IsDigit(m) /\ Lower(m) # LIST_FILES /\ state = "awaiting_input"

\* not message.isdigit() and message.lower() not in ["list files"]
IsTextInput(m) == ~IsDigit(m) /\ ~IsListFilesCommand(m)

\* Options dispatched whatever the state is.
AcceptsOptions_in_any_state(st) == TRUE

\* self.state == "awaiting_option"
AcceptsOptions(st) == st = "awaiting_option"

\* The first two branches of the chain exchanged.
OptionOf_detect_and_translate_exchanged(m) ==
    IF m = <<"1">> THEN "translate"
    ELSE IF m = <<"2">> THEN "detect"
    ELSE IF m = <<"3">> THEN "save"
    ELSE IF Lower(m) = LIST_FILES THEN "list"
    ELSE "invalid"

\* The branch of the if/elif chain an option input takes.
OptionOf(m) ==
    IF m = <<"1">> THEN "detect"
    ELSE IF m = <<"2">> THEN "translate"
    ELSE IF m = <<"3">> THEN "save"
    ELSE IF IsListFilesCommand(m) THEN "list"
    ELSE "invalid"

\* env is what the outside does during the call: env.az is the outcome of a
\* call of the translator, env.net that of an HTTP request, env.session_ok
\* whether a session can be constructed.
\* Returns the response, the calls made and the fields of the agent, of its
\* plugins and of the storage directory afterwards.
\* The text is stored and the state is left as it is.
StateAfterText_unchanged == state

\* self.state = "awaiting_option"
StateAfterText == "awaiting_option"

process_message(m, env) ==
    LET Out(st, li, lt, resp, calls, tool) ==
            [state |-> st, last_input |-> li, last_translation |-> lt,
             resp |-> resp, calls |-> calls,
             http_session |-> tool.http_session, opened |-> tool.opened,
             files |-> tool.files]
        untouched == [http_session |-> http_session, opened |-> opened, files |-> files]
        Reply(resp) == Out(state, last_input, last_translation, resp, <<>>, untouched)
    IN  IF IsExitCommand(m)
        THEN Reply(Text(GOODBYE, <<>>))
        ELSE IF IsTextInput(m)
        THEN Out(StateAfterText, Some(Strip(m)), last_translation,
                 Text("Received text", Strip(m)), <<>>, untouched)
        ELSE IF AcceptsOptions(state)
        THEN IF OptionOf(m) = "detect"
             THEN IF ~Truthy(last_input)
                  THEN Reply(Text(PROVIDE_TEXT_TO_DETECT, <<>>))
                  ELSE Out(state, last_input, last_translation,
                           Text("result, what next", detect_language(last_input[1], env.az)),
                           <<Call("detect_language", last_input[1])>>, untouched)
             ELSE IF OptionOf(m) = "translate"
             THEN IF ~Truthy(last_input)
                  THEN Reply(Text(PROVIDE_TEXT_TO_TRANSLATE, <<>>))
                  ELSE LET r == translate_to_english(last_input[1], env.az, last_translation)
                       IN  Out(state, last_input, r.last_translation,
                               Text("result, what next", r.result),
                               <<Call("translate_to_english", last_input[1])>>, untouched)
             ELSE IF OptionOf(m) = "save"
             THEN IF ~Truthy(last_translation)
                  THEN Reply(Text(NO_TRANSLATION, <<>>))
                  ELSE LET r == invoke_tool("create_file", NONE, env.net, env.session_ok)
                       IN  Out(state, last_input, last_translation,
                               IF r.result.status # "error"
                               THEN Text("Saved translation to", r.result.file_name)
                               ELSE Text("Failed to save translation", r.result.message),
                               <<Call("invoke_tool", <<"create_file">>)>> \o r.calls, r)
             ELSE IF OptionOf(m) = "list"
             THEN LET r == invoke_tool("list_files", NONE, env.net, env.session_ok)
                  IN  Out(state, last_input, last_translation,
                          IF r.result.type = "list"
                          THEN Text("Available files", {f.name : f \in r.result.items})
                          ELSE Text("Failed to list files", r.result.message),
                          <<Call("invoke_tool", <<"list_files">>)>> \o r.calls, r)
             ELSE Reply(Text(INVALID_OPTION, <<>>))
        ELSE Reply(Text(FALLBACK, <<>>))

-----------------------------------------------------------------------------
(* The inputs and the outcomes of the outside world.                       *)

T_HELLO == <<"H","e","l","l","o">>

T_DAY == <<"D","a","y">>

Messages ==
    { EXIT, <<"E","X","I","T">>,
      <<"1">>, <<"2">>, <<"3">>, <<"9">>,
      LIST_FILES, <<"L","i","s","t"," ","F","i","l","e","s">>,
      <<" ">>, <<" ","H","o","l","a"," ">>, <<"T","a","g">> }

AzureOutcomes ==
    { AzureRaises,
      AzureReturns(<<>>),
      AzureReturns(<<AzureItem(NONE, <<>>)>>),
      AzureReturns(<<AzureItem(Some(<<"e","s">>), <<T_HELLO>>)>>),
      AzureReturns(<<AzureItem(Some(<<"d","e">>), <<T_DAY>>)>>) }

NetOutcomes == {"ok", "non200", "raise"}

Env(az, net, session_ok) == [az |-> az, net |-> net, session_ok |-> session_ok]

\* The outcomes told apart while message m is processed: those of the
\* translator for the options that reach it, those of the HTTP request for
\* the options that reach the storage service, and one outcome otherwise.
EnvsFor(m) ==
    IF m \in {<<"1">>, <<"2">>}
    THEN {Env(az, "ok", TRUE) : az \in AzureOutcomes}
    ELSE IF m = <<"3">> \/ Lower(m) = LIST_FILES
    THEN {Env(AzureRaises, net, TRUE) : net \in NetOutcomes}
    ELSE {Env(AzureRaises, "ok", TRUE)}

A_TXT == <<"a",".","t","x","t">>

D_TXT == <<"d",".","t","x","t">>

R_MD == <<"r",".","m","d">>

\* The calls of invoke_tool: <<tool_name, file_name, outcome of the request>>
ToolCalls ==
    {<<"list_files", NONE, net>> : net \in NetOutcomes}
        \cup {<<"create_file", f, net>> : f \in {NONE, Some(<<>>), Some(A_TXT)},
                                           net \in NetOutcomes}
        \cup {<<"delete_file", NONE, "ok">>}

ClientFileNames == {A_TXT, TXT, <<"n">>, D_TXT}

KEY_A == <<"a">>

KEY_B == <<"b">>

ClientData ==
    { <<>>,
      << <<>> >>,
      << << <<KEY_A, <<"1">>>> >>, << <<KEY_A, <<"2">>>> >> >>,
      << << <<KEY_A, <<"1">>>>, <<KEY_B, <<"2">>>> >>, << <<KEY_B, <<"3">>>> >> >> }

-----------------------------------------------------------------------------
(* The state machine.                                                      *)

\* What an operation leaves in `last`.
Done(op, arg, resp, calls, env) ==
    [op |-> op, arg |-> arg, resp |-> resp, calls |-> calls, env |-> env,
     pre |-> [state |-> state, last_input |-> last_input,
              last_translation |-> last_translation]]

\* What the storage directory holds at the start: a file that is no text
\* file, and a subdirectory.
InitialFiles == (R_MD :> RegularFile(<<"x">>)) @@ (D_TXT :> Directory)

Init ==
    /\ pc = "init"
    /\ state = "awaiting_input"
    /\ last_input = NONE
    /\ last_translation = NONE
    /\ http_session = "none"
    /\ opened = 0
    /\ closed = 0
    /\ files = InitialFiles
    /\ now = 0
    /\ writes = 0
    /\ lastGood = NONE
    /\ last = [op |-> "start", arg |-> <<>>, resp |-> <<>>, calls |-> <<>>,
               env |-> NONE,
               pre |-> [state |-> "awaiting_input", last_input |-> NONE,
                        last_translation |-> NONE]]

\* A write that changes the directory counts against MaxWrites.
Written(fs) == IF fs # files THEN writes + 1 ELSE writes

\* main: await agent.initialize()
Initialize ==
    /\ pc = "init"
    /\ \E ok \in BOOLEAN :
        LET r == initialize_client(ok)
        IN  /\ http_session' = r.http_session
            /\ opened' = r.opened
            /\ pc' = IF r.raised THEN "finally" ELSE "loop"
            /\ last' = Done("initialize", <<>>, Text(IF r.raised THEN "raised" ELSE "", <<>>), <<>>, NONE)
    /\ UNCHANGED <<state, last_input, last_translation, closed, files, now,
                   writes, lastGood>>

\* main: one turn of the loop, from input() to the test of the response
MainLoopStep ==
    /\ pc = "loop"
    /\ \E m \in Messages : \E env \in EnvsFor(m) :
        \E r \in {process_message(m, env)} :
            /\ Written(r.files) <= MaxWrites
            /\ state' = r.state
            /\ last_input' = r.last_input
            /\ last_translation' = r.last_translation
            /\ http_session' = r.http_session
            /\ opened' = r.opened
            /\ files' = r.files
            /\ writes' = Written(r.files)
            /\ lastGood' =
                 IF /\ r.calls # <<>>
                    /\ r.calls[1].fn = "translate_to_english"
                    /\ AzureTranslation(env.az) # NONE
                 THEN Some(<<r.calls[1].arg, AzureTranslation(env.az)[1]>>)
                 ELSE lastGood
            /\ last' = Done("message", m, r.resp, r.calls, env)
            /\ pc' = IF r.resp.kind = GOODBYE THEN "finally" ELSE "loop"
    /\ UNCHANGED <<closed, now>>

\* main: input() raises (end of input) and the loop is left through except
InputError ==
    /\ pc = "loop"
    /\ pc' = "finally"
    /\ last' = Done("input", <<>>, Text("raised", <<>>), <<>>, NONE)
    /\ UNCHANGED <<state, last_input, last_translation, http_session, opened,
                   closed, files, now, writes, lastGood>>

\* The handle is dropped and the session it held is not closed.
cleanup_without_close ==
    [http_session |-> "none", closed |-> closed]

\* TextFilePlugin.cleanup, called from main's finally.  ClientSession.close()
\* is taken to return; were it to raise, the except clause would log the
\* error and leave the handle set.
cleanup ==
    IF http_session # "none"
    THEN [http_session |-> "none", closed |-> closed + 1]
    ELSE [http_session |-> http_session, closed |-> closed]

Cleanup ==
    /\ pc = "finally"
    /\ http_session' = cleanup.http_session
    /\ closed' = cleanup.closed
    /\ pc' = "done"
    /\ last' = Done("cleanup", <<>>, Text("", <<>>), <<>>, NONE)
    /\ UNCHANGED <<state, last_input, last_translation, opened, files, now,
                   writes, lastGood>>

\* The kernel function invoke_tool called with arguments of the caller's
\* choice while the assistant runs.
InvokeToolCall ==
    /\ pc = "loop"
    /\ \E c \in ToolCalls : \E r \in {invoke_tool(c[1], c[2], c[3], TRUE)} :
            /\ Written(r.files) <= MaxWrites
            /\ http_session' = r.http_session
            /\ opened' = r.opened
            /\ files' = r.files
            /\ writes' = Written(r.files)
            /\ last' = Done("invoke_tool", [tool_name |-> c[1], file_name |-> c[2]],
                            r.result, r.calls, Env(AzureRaises, c[3], TRUE))
    /\ UNCHANGED <<pc, state, last_input, last_translation, closed, now, lastGood>>

\* POST /tools/create_file sent by any client of the service
ServerCreateFile ==
    /\ \E file_name \in ClientFileNames, data \in ClientData :
        \E r \in {create_file(files, now, file_name, data)} :
            /\ Written(r.files) <= MaxWrites
            /\ files' = r.files
            /\ writes' = Written(r.files)
            /\ last' = Done("create_file", [file_name |-> file_name, data |-> data],
                            r.resp, <<>>, NONE)
    /\ UNCHANGED <<pc, state, last_input, last_translation, http_session, opened,
                   closed, now, lastGood>>

\* GET /tools/list_files sent by any client of the service
ServerListFiles ==
    /\ last' = Done("list_files", <<>>, ListResult(list_files(files)), <<>>, NONE)
    /\ UNCHANGED <<pc, state, last_input, last_translation, http_session, opened,
                   closed, files, now, writes, lastGood>>

\* A second passes.
Tick ==
    /\ now < MaxClock
    /\ now' = now + 1
    /\ UNCHANGED <<pc, state, last_input, last_translation, http_session, opened,
                   closed, files, writes, lastGood, last>>

Next ==
    \/ Initialize
    \/ MainLoopStep
    \/ InputError
    \/ Cleanup
    \/ InvokeToolCall
    \/ Tick

Spec == Init /\ [][Next]_vars

\* The storage service alone, under the requests of arbitrary clients.
ServerNext ==
    \/ ServerCreateFile
    \/ ServerListFiles
    \/ Tick

ServerSpec == Init /\ [][ServerNext]_vars

\* main leaves the loop into its finally clause, which runs to its end.
FairSpec == Spec /\ WF_vars(Cleanup)

-----------------------------------------------------------------------------
(* What the operation recorded in `last` did.                              *)

IsMessage == last.op = "message"

\* The functions and requests the operation invoked, in order.
Invoked == [i \in 1..Len(last.calls) |-> last.calls[i].fn]

\* The agent's fields are as they were before the operation.
StateKept == state = last.pre.state

PendingKept == last_input = last.pre.last_input

TranslationKept == last_translation = last.pre.last_translation

-----------------------------------------------------------------------------
(* C1: in every conversation state the input "exit" makes process_message  *)
(* return the goodbye response without invoking any capability and without *)
(* changing the state, the pending text or the last translation; the main  *)
(* loop ends on that response, and the session is closed afterwards.       *)

C1_ExitSeen == IsMessage /\ last.arg = EXIT

C1_ExitHandled ==
    C1_ExitSeen =>
        /\ last.resp.kind = GOODBYE
        /\ last.calls = <<>>
        /\ StateKept /\ PendingKept /\ TranslationKept
        /\ pc = "finally"

C1_Released == pc = "done" /\ http_session = "none" /\ closed = opened

-----------------------------------------------------------------------------
(* C2: option input is accepted in the awaiting_option state only.  While  *)
(* the state is awaiting_input, a digit input ("1", "2", "3" included) or  *)
(* the list-files command invokes none of detect_language,                 *)
(* translate_to_english and invoke_tool, is answered with the generic      *)
(* fallback prompt, and leaves the state, the pending text and the last    *)
(* translation as they were.                                               *)

C2_OptionInputWhileAwaitingInput ==
    /\ IsMessage
    /\ last.pre.state = "awaiting_input"
    /\ (IsDigit(last.arg) \/ Lower(last.arg) = LIST_FILES)

\* C2: in awaiting_input a digit input or the list-files command invokes
\* nothing, gets the fallback prompt, and changes nothing.
C2_OptionsOnlyWhenAwaitingOption ==
    C2_OptionInputWhileAwaitingInput =>
        /\ \A i \in 1..Len(Invoked) :
              Invoked[i] \notin {"detect_language", "translate_to_english", "invoke_tool"}
        /\ last.resp.kind = FALLBACK
        /\ StateKept /\ PendingKept /\ TranslationKept

\* "1" is given before any text.
C2_Witness ==
    /\ C2_OptionInputWhileAwaitingInput
    /\ last.arg = <<"1">>
    /\ state = "awaiting_input"

-----------------------------------------------------------------------------
(* C3: an input that is neither the exit command, nor a digit string, nor  *)
(* the list-files command is stored, stripped, as the pending text, from   *)
(* either state; the state becomes awaiting_option, no capability is       *)
(* invoked and the last translation is left as it was.  The exit command   *)
(* and the list-files command are the inputs process_message takes for     *)
(* them: "exit" and "list files" in any letter case.                       *)

\* s is m without its leading and trailing whitespace.
C3_StrippedOf(s, m) ==
    /\ s # <<>> => (s[1] \notin WHITESPACE /\ s[Len(s)] \notin WHITESPACE)
    /\ \E i \in 1..Len(m) + 1 :
          /\ i + Len(s) - 1 <= Len(m)
          /\ SubSeq(m, i, i + Len(s) - 1) = s
          /\ \A k \in 1..Len(m) :
                (k < i \/ k > i + Len(s) - 1) => m[k] \in WHITESPACE

C3_TextGiven ==
    /\ IsMessage
    /\ Lower(last.arg) # EXIT
    /\ ~IsDigit(last.arg)
    /\ Lower(last.arg) # LIST_FILES

\* C3: a text input is stored stripped, the state becomes awaiting_option,
\* nothing is invoked and the last translation is kept.
C3_TextIsStored ==
    C3_TextGiven =>
        /\ last_input # NONE
        /\ C3_StrippedOf(last_input[1], last.arg)
        /\ state = "awaiting_option"
        /\ last.calls = <<>>
        /\ TranslationKept

\* " Hola " replaces another pending text.
C3_Witness ==
    /\ C3_TextGiven
    /\ last.arg = <<" ","H","o","l","a"," ">>
    /\ last_input = Some(<<"H","o","l","a">>)
    /\ last.pre.state = "awaiting_option"
    /\ last.pre.last_input = Some(<<"T","a","g">>)

-----------------------------------------------------------------------------
(* C4: the dispatch in the awaiting_option state.                          *)

C4_OptionGiven(m) ==
    IsMessage /\ last.pre.state = "awaiting_option" /\ last.arg = m

C4_OtherDigitGiven ==
    /\ IsMessage
    /\ last.pre.state = "awaiting_option"
    /\ IsDigit(last.arg)
    /\ last.arg \notin {<<"1">>, <<"2">>, <<"3">>}

C4_ListGiven ==
    IsMessage /\ last.pre.state = "awaiting_option" /\ Lower(last.arg) = LIST_FILES

\* What the claim says of "3", of the list-files command, of the other
\* digits, and of the state and the pending text afterwards.
C4_Rest ==
    /\ (C4_OptionGiven(<<"3">>) /\ Truthy(last.pre.last_translation)) =>
          /\ Len(last.calls) >= 1
          /\ last.calls[1] = Call("invoke_tool", <<"create_file">>)
    /\ C4_ListGiven =>
          /\ Len(last.calls) >= 1
          /\ last.calls[1] = Call("invoke_tool", <<"list_files">>)
    /\ C4_OtherDigitGiven =>
          /\ last.calls = <<>>
          /\ last.resp.kind = INVALID_OPTION
    /\ (IsMessage /\ last.pre.state = "awaiting_option"
           /\ (IsDigit(last.arg) \/ Lower(last.arg) = LIST_FILES)) =>
          /\ state = "awaiting_option"
          /\ PendingKept

\* C4, as claimed: "1" invokes detect_language once on the pending text and
\* "2" invokes translate_to_english once on it, whatever the pending text.
C4_DispatchAsClaimed ==
    /\ C4_OptionGiven(<<"1">>) =>
          last.calls = <<Call("detect_language", last.pre.last_input[1])>>
    /\ C4_OptionGiven(<<"2">>) =>
          last.calls = <<Call("translate_to_english", last.pre.last_input[1])>>
    /\ C4_Rest

\* C4, as amended: "1" and "2" invoke their capability once on the pending
\* text when that text is not empty; when it is empty (an empty or blank
\* line was given) they invoke nothing and ask for a text.
C4_Dispatch ==
    /\ (C4_OptionGiven(<<"1">>) /\ Truthy(last.pre.last_input)) =>
          last.calls = <<Call("detect_language", last.pre.last_input[1])>>
    /\ (C4_OptionGiven(<<"2">>) /\ Truthy(last.pre.last_input)) =>
          last.calls = <<Call("translate_to_english", last.pre.last_input[1])>>
    /\ (C4_OptionGiven(<<"1">>) /\ ~Truthy(last.pre.last_input)) =>
          /\ last.calls = <<>>
          /\ last.resp.kind = PROVIDE_TEXT_TO_DETECT
    /\ (C4_OptionGiven(<<"2">>) /\ ~Truthy(last.pre.last_input)) =>
          /\ last.calls = <<>>
          /\ last.resp.kind = PROVIDE_TEXT_TO_TRANSLATE
    /\ C4_Rest

\* "2" is given while "Hola" is pending, and the translator is called on it.
C4_Witness ==
    /\ C4_OptionGiven(<<"2">>)
    /\ last.pre.last_input = Some(<<"H","o","l","a">>)
    /\ last.calls = <<Call("translate_to_english", <<"H","o","l","a">>)>>
    /\ state = "awaiting_option"


-----------------------------------------------------------------------------
(* C5: a save requested before any translation has succeeded (option "3",  *)
(* or invoke_tool with create_file) is answered with the                   *)
(* no-translation-available message, sends no create request to the       *)
(* storage service and creates no file.                                    *)

C5_NoTranslationYet == lastGood = NONE

\* C5: before a translation has succeeded a save request gets the
\* no-translation message, sends no POST and creates no file.
C5_NoSaveBeforeTranslation ==
    C5_NoTranslationYet =>
        /\ \A i \in 1..Len(Invoked) : Invoked[i] # "POST"
        /\ files = InitialFiles
        /\ C4_OptionGiven(<<"3">>) => last.resp.kind = NO_TRANSLATION
        /\ (last.op = "invoke_tool" /\ last.arg.tool_name = "create_file") =>
              /\ last.resp.status = "error"
              /\ last.resp.message = NO_TRANSLATION

\* A save is requested after a translation was tried and returned nothing.
C5_Witness ==
    /\ C5_NoTranslationYet
    /\ C4_OptionGiven(<<"3">>)
    /\ last.pre.last_input = Some(<<"H","o","l","a">>)
    /\ last.resp.kind = NO_TRANSLATION

-----------------------------------------------------------------------------
(* C6: last_translation is what the most recent successful call of         *)
(* translate_to_english returned, and None before the first; nothing else  *)
(* changes it, and a save submits that value as its single row, also when  *)
(* the pending text has been replaced since.                               *)

C6_TranslationSucceeded ==
    /\ IsMessage
    /\ last.resp.kind = "result, what next"
    /\ last.resp.arg.kind = "Translated to English"

\* C6: last_translation is the result of the most recent successful
\* translation, only a successful translation changes it, and a save posts
\* it as the single row.
C6_LastTranslationIsTheMostRecent ==
    /\ last_translation = IF lastGood = NONE THEN NONE ELSE Some(lastGood[1][2])
    /\ ~C6_TranslationSucceeded => TranslationKept
    /\ \A i \in 1..Len(last.calls) :
          last.calls[i].fn = "POST" =>
              /\ lastGood # NONE
              /\ last.calls[i].arg[2] = << << <<TRANSLATION_KEY, lastGood[1][2]>> >> >>

\* "Hola" was translated to "Hello", "Tag" was given next, and the save
\* that follows submits "Hello".
C6_Witness ==
    /\ C4_OptionGiven(<<"3">>)
    /\ lastGood = Some(<< <<"H","o","l","a">>, T_HELLO >>)
    /\ last_input = Some(<<"T","a","g">>)
    /\ Len(last.calls) = 2
    /\ last.calls[2].fn = "POST"
    /\ last.calls[2].arg[2] = << << <<TRANSLATION_KEY, T_HELLO>> >> >>
    /\ last.resp.kind = "Saved translation to"


-----------------------------------------------------------------------------
(* C7: create_file called with an empty row list, or with a first row that *)
(* is empty, answers with status "error" and an empty file_id, and leaves  *)
(* the stored files and their contents as they were, whatever the          *)
(* file_name.                                                              *)

C7_EmptyRowsGiven ==
    /\ last.op = "create_file"
    /\ (last.arg.data = <<>> \/ last.arg.data[1] = <<>>)

\* C7: a create_file step with no rows, or with an empty first row, answers
\* status "error" with file_id "" and leaves the directory as it was.
C7_EmptyRowsAreRefused ==
    [][ C7_EmptyRowsGiven' =>
          /\ last'.resp.status = "error"
          /\ last'.resp.file_id = Some(<<>>)
          /\ files' = files ]_vars

\* A list whose only row is empty is refused after a file has been stored.
C7_Witness ==
    /\ C7_EmptyRowsGiven
    /\ last.arg.data = << <<>> >>
    /\ last.arg.file_name = A_TXT
    /\ last.resp.status = "error"
    /\ A_TXT \in DOMAIN files

-----------------------------------------------------------------------------
(* C8: a file created by a successful create_file keeps its name and its   *)
(* content under every later create_file and list_files, later creates     *)
(* with the same file_name included.                                       *)

\* C8: no step changes or removes a regular file of the storage directory.
C8_StoredFilesNeverChange ==
    [][ \A n \in DOMAIN files :
          files[n].kind = "file" => (n \in DOMAIN files' /\ files'[n] = files[n]) ]_vars

-----------------------------------------------------------------------------
(* C9: a successful create_file writes the line "Translation Data:", then  *)
(* the comma-joined keys of the first row, then one comma-joined line for  *)
(* each row in input order with the value of each header key (empty when   *)
(* the row lacks the key), joined by newlines with no trailing newline.    *)

\* The parts of s between the occurrences of the character sep.
RECURSIVE C9_Split(_, _)
C9_Split(s, sep) ==
    IF \A i \in 1..Len(s) : s[i] # sep
    THEN <<s>>
    ELSE LET i == CHOOSE k \in 1..Len(s) :
                      s[k] = sep /\ \A j \in 1..(k - 1) : s[j] # sep
         IN  <<SubSeq(s, 1, i - 1)>> \o C9_Split(SubSeq(s, i + 1, Len(s)), sep)

\* The value a row has under a key: "" when it has none.
C9_ValueOf(row, key) ==
    IF \E i \in 1..Len(row) : row[i][1] = key
    THEN (CHOOSE v \in {row[i][2] : i \in {j \in 1..Len(row) : row[j][1] = key}} : TRUE)
    ELSE <<>>

C9_Created == last.op = "create_file" /\ last.resp.status = "success"

\* C9: after a successful create_file the stored content, split at the
\* newlines, is the title, the keys of the first row, and for each row the
\* values of those keys; the rows [{"a":"1"},{"a":"2"}] give
\* "Translation Data:\na\n1\n2".
C9_ContentWritten ==
    C9_Created =>
        LET data    == last.arg.data
            name    == last.resp.file_name[1]
            lines   == C9_Split(files[name].content, "\n")
            headers == C9_Split(lines[2], ",")
        IN  /\ name \in DOMAIN files
            /\ files[name].kind = "file"
            /\ Len(lines) = 2 + Len(data)
            /\ lines[1] = TRANSLATION_DATA
            /\ Len(headers) = Len(data[1])
            /\ \A k \in 1..Len(headers) : headers[k] = data[1][k][1]
            /\ \A i \in 1..Len(data) :
                  C9_Split(lines[2 + i], ",")
                      = [k \in 1..Len(headers) |-> C9_ValueOf(data[i], headers[k])]
            /\ (data = << << <<KEY_A, <<"1">>>> >>, << <<KEY_A, <<"2">>>> >> >>) =>
                  files[name].content =
                      TRANSLATION_DATA \o <<"\n", "a", "\n", "1", "\n", "2">>

\* The rows [{"a":"1","b":"2"},{"b":"3"}] have been written: the second row
\* has no "a".
C9_Witness ==
    /\ C9_Created
    /\ last.arg.file_name = A_TXT
    /\ files[A_TXT].content =
          TRANSLATION_DATA \o <<"\n", "a", ",", "b", "\n", "1", ",", "2", "\n", ",", "3">>

-----------------------------------------------------------------------------
(* C10: list_files returns one {name, id} entry for each regular file of   *)
(* the storage directory whose suffix is .txt and none for anything else;  *)
(* in particular every file created by a successful create_file is in the  *)
(* next listing.                                                           *)

C10_Listed == {f.name : f \in last.resp.items}

\* C10: a listing holds only regular files whose name ends in .txt, each
\* with its path as id, and it holds every file created so far.
C10_CreatedFilesAreListed ==
    last.op = "list_files" =>
        /\ \A n \in C10_Listed :
              n \in DOMAIN files /\ files[n].kind = "file" /\ EndsWith(n, TXT)
        /\ \A f \in last.resp.items : f.id = FILES_DIR \o <<"/">> \o f.name
        /\ \A n \in DOMAIN files \ DOMAIN InitialFiles : n \in C10_Listed


-----------------------------------------------------------------------------
(* C11: one session is acquired at startup and released at shutdown.  At   *)
(* every point at most one session is open, no session is created while    *)
(* one is open, and on every way the main loop ends (the exit command, an  *)
(* error in initialization, an error in the loop) the session is closed    *)
(* and the handle is cleared.                                              *)

\* The sessions constructed and not closed yet.
C11_OpenSessions == opened - closed

C11_AtMostOneSession ==
    /\ opened <= 1
    /\ C11_OpenSessions \in {0, 1}
    /\ (http_session = "open") <=> (C11_OpenSessions = 1)
    /\ pc = "loop" => (opened = 1 /\ http_session = "open")

\* A session is constructed only at startup and only when none is held.
C11_AcquiredAtStartupOnly ==
    opened' # opened =>
        /\ opened' = opened + 1
        /\ pc = "init"
        /\ http_session = "none"
        /\ C11_OpenSessions = 0

\* The loop has ended, or was never entered: main is in its finally clause.
C11_LoopEnded == pc = "finally"

C11_Released ==
    /\ pc = "done"
    /\ http_session = "none"
    /\ C11_OpenSessions = 0

-----------------------------------------------------------------------------
(* C12: a failure of an external call (detection, translation, the HTTP    *)
(* request to the storage service, an answer that is not 200) becomes a    *)
(* string for the user or a response with status "error" where the call is *)
(* made, and is never fatal: process_message returns a response, the main  *)
(* loop goes on, and the conversation state and the pending text are what  *)
(* they were before the call.                                              *)

\* The translator was called for the capability fn and raised.
C12_TranslatorFailed(fn) ==
    /\ IsMessage
    /\ Invoked = <<fn>>
    /\ last.env.az.raises

\* An HTTP request was sent and raised, or was answered with another status
\* than 200.
C12_RequestFailed ==
    /\ last.op \in {"message", "invoke_tool"}
    /\ last.calls # <<>>
    /\ last.calls[Len(last.calls)].fn \in {"GET", "POST"}
    /\ last.env.net \in {"non200", "raise"}

C12_Failed ==
    \/ C12_TranslatorFailed("detect_language")
    \/ C12_TranslatorFailed("translate_to_english")
    \/ C12_RequestFailed

C12_RequestErrors ==
    {"Failed to list files: HTTP", "Failed to create file: HTTP", "Failed to invoke tool"}

\* The failure reached the caller as an error string or an error response.
C12_ErrorReported ==
    /\ C12_TranslatorFailed("detect_language") =>
            /\ last.resp.kind = "result, what next"
            /\ last.resp.arg.kind = "Error detecting language"
    /\ C12_TranslatorFailed("translate_to_english") =>
            /\ last.resp.kind = "result, what next"
            /\ last.resp.arg.kind = "Error translating text"
    /\ (C12_RequestFailed /\ IsMessage) =>
            /\ last.resp.kind =
                    IF last.calls[Len(last.calls)].fn = "POST"
                    THEN "Failed to save translation"
                    ELSE "Failed to list files"
            /\ last.resp.arg \in C12_RequestErrors
    /\ (C12_RequestFailed /\ last.op = "invoke_tool") =>
            /\ last.resp.status = "error"
            /\ last.resp.message \in C12_RequestErrors

\* C12: after a failed external call the caller holds an error string or a
\* response with status "error", the main loop is still reading input, and
\* the conversation state and the pending text are unchanged.
C12_FailuresAreReportedAndNotFatal ==
    C12_Failed =>
        /\ C12_ErrorReported
        /\ pc = "loop"
        /\ StateKept
        /\ PendingKept

\* Saving a translation failed because the HTTP request raised.
C12_Witness ==
    /\ IsMessage
    /\ last.arg = <<"3">>
    /\ Invoked = <<"invoke_tool", "POST">>
    /\ last.env.net = "raise"
    /\ last.resp.kind = "Failed to save translation"
    /\ pc = "loop"
    /\ state = "awaiting_option"
    /\ last_input = Some(<<"H","o","l","a">>)

-----------------------------------------------------------------------------
(* C13: in every reachable state the conversation state is awaiting_option *)
(* exactly when a pending text has been stored (last_input is not None)    *)
(* and awaiting_input exactly when none has; so once the state is          *)
(* awaiting_option no input brings it back to awaiting_input.              *)

C13_StateTellsPendingText ==
    /\ state \in {"awaiting_input", "awaiting_option"}
    /\ (state = "awaiting_option") <=> (last_input # NONE)
    /\ (state = "awaiting_input") <=> (last_input = NONE)

C13_AwaitingOptionIsKept ==
    state = "awaiting_option" =>
        /\ state' = "awaiting_option"
        /\ last_input' # NONE

\* C13: the state is awaiting_option exactly when last_input is not None and
\* awaiting_input exactly when it is None, and no step leaves awaiting_option.
C13_StateFollowsPendingText ==
    /\ []C13_StateTellsPendingText
    /\ [][C13_AwaitingOptionIsKept]_vars

\* A blank line was given while a text was pending: the empty string is
\* stored, and the options are still awaited.
C13_Witness ==
    /\ IsMessage
    /\ last.arg = <<" ">>
    /\ last.pre.state = "awaiting_option"
    /\ last.pre.last_input = Some(<<"H","o","l","a">>)
    /\ state = "awaiting_option"
    /\ last_input = Some(<<>>)

====
